---- MODULE Spec2Model ----
(***************************************************************************)
(* Model of bsi_installer.pyw: the install workflow, the update workflow,  *)
(* the startup update check, the persisted release/config records and the  *)
(* part of the Tk shell that gates when a workflow can be started.         *)
(*                                                                         *)
(* Python strings are sequences of tokens.  A token is a TLA+ string that  *)
(* stands for one character or for a run of characters the code never      *)
(* splits ("Beam Server", "Beammp-server-creator-").  Paths on disk are    *)
(* sequences of segments, a segment being a sequence of tokens.            *)
(***************************************************************************)
EXTENDS Integers, Sequences, FiniteSets, TLC

(***************************************************************************)
(* Bounds of the model.                                                    *)
(***************************************************************************)
\* worker threads started in one session
MaxRuns == 2

\* failures of the environment in one session: a request that fails, a
\* stream that is cut, a body that is not what was asked for, a system call
\* that is refused, a process that cannot be launched or terminated
MaxFaults == 1

(***************************************************************************)
(* str helpers                                                             *)
(***************************************************************************)
\* the None object: a value no str equals (no str holds this token)
None == <<"<None>">>

\* bool(x) for x a str or None
Truthy(x) == x # None /\ x # <<>>

\* f"{x}"
Format(x) == IF x = None THEN <<"None">> ELSE x

SEP == "/"

StartsWith(s, p) == Len(p) <= Len(s) /\ SubSeq(s, 1, Len(p)) = p

EndsWith(s, c) == Len(s) > 0 /\ s[Len(s)] = c

\* index of the first occurrence of token c in s, 0 when there is none
RECURSIVE FindFrom(_, _, _)
FindFrom(s, c, i) ==
    IF i > Len(s) THEN 0
    ELSE IF s[i] = c THEN i
    ELSE FindFrom(s, c, i + 1)

Find(s, c) == FindFrom(s, c, 1)

\* str.split(c): the pieces between the occurrences of c
RECURSIVE Split(_, _)
Split(s, c) ==
    LET i == Find(s, c)
    IN  IF i = 0 THEN <<s>>
        ELSE <<SubSeq(s, 1, i - 1)>> \o Split(SubSeq(s, i + 1, Len(s)), c)

\* sep.join(pieces)
RECURSIVE JoinWith(_, _)
JoinWith(pieces, c) ==
    IF Len(pieces) = 0 THEN <<>>
    ELSE IF Len(pieces) = 1 THEN pieces[1]
    ELSE pieces[1] \o <<c>> \o JoinWith(Tail(pieces), c)

\* str.strip(): leading and trailing blanks removed
RECURSIVE LStrip(_)
LStrip(s) == IF Len(s) > 0 /\ s[1] = " " THEN LStrip(Tail(s)) ELSE s

RECURSIVE RStrip(_)
RStrip(s) ==
    IF Len(s) > 0 /\ s[Len(s)] = " " THEN RStrip(SubSeq(s, 1, Len(s) - 1)) ELSE s

Strip(s) == LStrip(RStrip(s))

(***************************************************************************)
(* os.path                                                                 *)
(***************************************************************************)
\* the process's working directory, which abspath() prepends
Cwd == << <<"app">> >>

NotCurdir(x) == x # <<>> /\ x # <<".">>

\* posixpath.normpath on a list of segments of an absolute path
RECURSIVE NormSegs(_, _)
NormSegs(todo, acc) ==
    IF Len(todo) = 0 THEN acc
    ELSE LET x == Head(todo)
         IN  IF x = <<>> \/ x = <<".">> THEN NormSegs(Tail(todo), acc)
             ELSE IF x = <<".", ".">>
                  THEN NormSegs(Tail(todo),
                                IF Len(acc) = 0 THEN acc
                                ELSE SubSeq(acc, 1, Len(acc) - 1))
             ELSE NormSegs(Tail(todo), Append(acc, x))

\* abspath(p) as a list of segments: what the OS resolves the string p to
Resolve(p) ==
    IF StartsWith(p, <<SEP>>) THEN NormSegs(Split(p, SEP), <<>>)
    ELSE NormSegs(Cwd \o Split(p, SEP), <<>>)

\* os.path.join(a, b)
PathJoin(a, b) ==
    IF StartsWith(b, <<SEP>>) THEN b
    ELSE IF a = <<>> \/ EndsWith(a, SEP) THEN a \o b
    ELSE a \o <<SEP>> \o b

\* length of the longest common prefix of two sequences
RECURSIVE CommonLen(_, _, _)
CommonLen(a, b, i) ==
    IF i < Len(a) /\ i < Len(b) /\ a[i + 1] = b[i + 1]
    THEN CommonLen(a, b, i + 1)
    ELSE i

RECURSIVE CommonSegs(_)
CommonSegs(lists) ==
    IF Len(lists) = 1 THEN lists[1]
    ELSE LET rest == CommonSegs(Tail(lists))
         IN  SubSeq(rest, 1, CommonLen(lists[1], rest, 0))

\* os.path.commonpath(paths) for relative paths; raises ValueError on []
CommonPathRaises(paths) == Len(paths) = 0

CommonPath(paths) ==
    JoinWith(CommonSegs([i \in 1..Len(paths) |->
                            SelectSeq(Split(paths[i], SEP), NotCurdir)]), SEP)

RECURSIVE Pardirs(_)
Pardirs(n) == IF n = 0 THEN <<>> ELSE << <<".", ".">> >> \o Pardirs(n - 1)

\* os.path.relpath(path, start): both are made absolute, the common
\* segments are dropped, and one ".." stands for every segment start has left
RelList(start_list, path_list, i) ==
    Pardirs(Len(start_list) - i) \o SubSeq(path_list, i + 1, Len(path_list))

RelJoin(rel_list) == IF Len(rel_list) = 0 THEN <<".">> ELSE JoinWith(rel_list, SEP)

RelFrom(start_list, path_list) ==
    RelJoin(RelList(start_list, path_list, CommonLen(start_list, path_list, 0)))

RelPath(path, start) == RelFrom(Resolve(start), Resolve(path))

\* os.path.dirname(p)
RECURSIVE LastSep(_, _)
LastSep(p, i) == IF i = 0 THEN 0 ELSE IF p[i] = SEP THEN i ELSE LastSep(p, i - 1)

RECURSIVE RStripSep(_)
RStripSep(s) ==
    IF Len(s) > 0 /\ s[Len(s)] = SEP THEN RStripSep(SubSeq(s, 1, Len(s) - 1)) ELSE s

DirName(p) ==
    LET head == SubSeq(p, 1, LastSep(p, Len(p)))
    IN  IF RStripSep(head) = <<>> THEN head ELSE RStripSep(head)

\* os.path.basename(p)
BaseName(p) == SubSeq(p, LastSep(p, Len(p)) + 1, Len(p))

(***************************************************************************)
(* The disk: the set of directories and the content of every file, keyed   *)
(* by resolved path.  A file's content is a sequence of bytes (tokens).    *)
(***************************************************************************)
EmptyDisk == [dirs |-> {<<>>}, files |-> <<>>]

IsDir(d, p) == Resolve(p) \in d.dirs

IsFile(d, p) == Resolve(p) \in DOMAIN d.files

Exists(d, p) == IsDir(d, p) \/ IsFile(d, p)

Prefixes(segs) == {SubSeq(segs, 1, n) : n \in 0..Len(segs)}

\* os.makedirs(p, exist_ok=True) raises when p, or a directory above it, is a file
MakeDirsRaises(d, p) == \E q \in Prefixes(Resolve(p)) : q \in DOMAIN d.files

MakeDirs(d, p) == [d EXCEPT !.dirs = @ \cup Prefixes(Resolve(p))]

\* open(p, 'wb') / open(p, 'w') raises when the parent is no directory or p is one
OpenWriteRaises(d, p) ==
    LET segs == Resolve(p)
    IN  \/ Len(segs) = 0
        \/ SubSeq(segs, 1, Len(segs) - 1) \notin d.dirs
        \/ segs \in d.dirs

Put(f, k, v) == [x \in DOMAIN f \cup {k} |-> IF x = k THEN v ELSE f[x]]

Drop(f, k) == [x \in DOMAIN f \ {k} |-> f[x]]

\* with open(p, 'wb') as f: f.write(data)   (the file is truncated, then written)
WriteFile(d, p, data) == [d EXCEPT !.files = Put(@, Resolve(p), data)]

\* os.remove(p)
RemoveRaises(d, p) == ~IsFile(d, p)

Remove(d, p) == [d EXCEPT !.files = Drop(@, Resolve(p))]

\* shutil.move(src, dst) of a file onto a file path
MoveRaises(d, src, dst) == ~IsFile(d, src) \/ OpenWriteRaises(d, dst)

Move(d, src, dst) ==
    [d EXCEPT !.files = Put(Drop(@, Resolve(src)), Resolve(dst), d.files[Resolve(src)])]

(***************************************************************************)
(* Archives the remote end can serve.  An entry is a member name and its   *)
(* bytes; a name ending in "/" is a directory entry.                       *)
(***************************************************************************)
BSI_REPO_NAME == <<"Beammp-server-creator">>

\* f"{BSI_REPO_NAME}-"
RootMark == BSI_REPO_NAME \o <<"-">>

DirEntry(name) == [name |-> name, data |-> <<>>]

FileEntry(name, data) == [name |-> name, data |-> data]

\* release 1 of the component: a single root folder
Archive1 ==
    << DirEntry(RootMark \o <<"1", "/">>),
       FileEntry(RootMark \o <<"1", "/", "README">>, <<"r", "1">>),
       DirEntry(RootMark \o <<"1", "/", "src", "/">>),
       FileEntry(RootMark \o <<"1", "/", "src", "/", "main">>, <<"m", "1">>) >>

\* release 2 of the component: a single root folder
Archive2 ==
    << DirEntry(RootMark \o <<"2", "/">>),
       FileEntry(RootMark \o <<"2", "/", "README">>, <<"r", "2">>),
       FileEntry(RootMark \o <<"2", "/", "ServerConfig", ".", "toml">>, <<"toml">>) >>

\* a crafted archive: an entry that climbs out of the root folder, and an
\* entry of a sibling folder whose name starts with the root folder's name
Archive3 ==
    << DirEntry(RootMark \o <<"1", "/">>),
       FileEntry(RootMark \o <<"1", "/", "README">>, <<"r", "1">>),
       FileEntry(RootMark \o <<"1", "/", ".", ".", "/", "x">>, <<"x">>),
       FileEntry(RootMark \o <<"1", "e", "/", "evil">>, <<"e">>) >>

\* an archive without any directory entry
Archive4 == << FileEntry(<<"README">>, <<"r", "0">>) >>

ArchiveTable == <<Archive1, Archive2, Archive3, Archive4>>

ArchiveIds == 1..Len(ArchiveTable)

\* the bytes of archive k as downloaded
ZipBytes(k) == <<"PK", k>>

\* a response body that is no archive (an error page, a truncated stream)
NotZipBytes == <<"PK">>

\* zipfile.ZipFile(path): BadZipFile unless the bytes are an archive
IsZip(bytes) == Len(bytes) = 2 /\ bytes[1] = "PK" /\ bytes[2] \in ArchiveIds

NameList(bytes) == [i \in 1..Len(ArchiveTable[bytes[2]]) |-> ArchiveTable[bytes[2]][i]]

IsRootDirName(m) == StartsWith(m, RootMark) /\ EndsWith(m, SEP)

(***************************************************************************)
(* Extraction, as both workflows do it.                                    *)
(***************************************************************************)
\* a copy that appends to the file it finds (mode "ab")
CopyMemberAppending(d, target_path, data) ==
    WriteFile(d, target_path,
              (IF IsFile(d, target_path) THEN d.files[Resolve(target_path)] ELSE <<>>)
                  \o data)

\* with zip_ref.open(member) as source, open(target_path, "wb") as target:
\* shutil.copyfileobj(source, target)
CopyMember(d, target_path, data) == WriteFile(d, target_path, data)

Skipped(d) == [raised |-> FALSE, disk |-> d]

Raised(d) == [raised |-> TRUE, disk |-> d]

\* lines 161-163: the member's bytes are copied into target_path
CopyInto(d, target_path, data) ==
    IF OpenWriteRaises(d, target_path) THEN Raised(d)
    ELSE Skipped(CopyMember(d, target_path, data))

\* lines 156-163: a directory entry is created, a file entry is copied into
\* its directory, which is created first
PlaceMember(d, e, target_path) ==
    IF EndsWith(e.name, SEP)
    THEN IF MakeDirsRaises(d, target_path) THEN Raised(d)
         ELSE Skipped(MakeDirs(d, target_path))
    ELSE IF MakeDirsRaises(d, DirName(target_path)) THEN Raised(d)
         ELSE CopyInto(MakeDirs(d, DirName(target_path)), target_path, e.data)

\* lines 150-154: the root folder itself is skipped; target_path is
\* os.path.join(beam_server_path, relative_path)
PlaceRelative(d, e, relative_path, beam_server_path) ==
    IF relative_path = <<".">> THEN Skipped(d)
    ELSE PlaceMember(d, e, PathJoin(beam_server_path, relative_path))

\* one iteration of "for member in zip_ref.namelist()"
\* result: [raised, disk]
ExtractMember(d, e, common_prefix, beam_server_path) ==
    IF ~StartsWith(e.name, common_prefix) THEN Skipped(d)
    ELSE PlaceRelative(d, e, RelPath(e.name, common_prefix), beam_server_path)

RECURSIVE ExtractLoop(_, _, _, _)
\* the loop goes on unless the iteration raised
ExtractRest(r, entries, common_prefix, beam_server_path) ==
    IF r.raised THEN r
    ELSE ExtractLoop(r.disk, entries, common_prefix, beam_server_path)

ExtractLoop(d, entries, common_prefix, beam_server_path) ==
    IF Len(entries) = 0 THEN Skipped(d)
    ELSE ExtractRest(ExtractMember(d, Head(entries), common_prefix, beam_server_path),
                     Tail(entries), common_prefix, beam_server_path)

\* what the handlers of the "with" block see: [status, disk]
\* status one of "ok", "badzip" (BadZipFile), "error" (any other exception)
Outcome(r) == [status |-> IF r.raised THEN "error" ELSE "ok", disk |-> r.disk]

MemberNames(entries) == [i \in 1..Len(entries) |-> entries[i].name]

\* lines 144-148: the common prefix of the root folder names, then the loop
ExtractEntries(d, entries, roots, beam_server_path) ==
    IF CommonPathRaises(roots) THEN [status |-> "error", disk |-> d]
    ELSE Outcome(ExtractLoop(d, entries, CommonPath(roots), beam_server_path))

ExtractBytes(d, bytes, beam_server_path) ==
    IF ~IsZip(bytes) THEN [status |-> "badzip", disk |-> d]
    ELSE ExtractEntries(d, NameList(bytes),
                        SelectSeq(MemberNames(NameList(bytes)), IsRootDirName),
                        beam_server_path)

\* the "with zipfile.ZipFile(bsi_zip_filename, 'r') as zip_ref" block
ExtractZip(d, bsi_zip_filename, beam_server_path) ==
    IF ~IsFile(d, bsi_zip_filename) THEN [status |-> "error", disk |-> d]
    ELSE ExtractBytes(d, d.files[Resolve(bsi_zip_filename)], beam_server_path)

(***************************************************************************)
(* packaging.version.parse and the comparison of two versions.  A tag is   *)
(* an optional "v" and a release part of numbers separated by dots;        *)
(* anything else raises InvalidVersion.                                    *)
(***************************************************************************)
Digits == <<"0", "1", "2", "3", "4", "5", "6", "7", "8", "9">>

IsDigit(c) == \E i \in 1..Len(Digits) : Digits[i] = c

DigitVal(c) == (CHOOSE i \in 1..Len(Digits) : Digits[i] = c) - 1

RECURSIVE IntOf(_, _)
IntOf(ds, acc) ==
    IF Len(ds) = 0 THEN acc ELSE IntOf(Tail(ds), 10 * acc + DigitVal(Head(ds)))

IsNumber(piece) == Len(piece) > 0 /\ \A i \in 1..Len(piece) : IsDigit(piece[i])

\* the text after the optional leading "v"
ReleaseText(tag) ==
    LET t == Strip(tag)
    IN  IF Len(t) > 0 /\ t[1] = "v" THEN Tail(t) ELSE t

\* parse_version(tag) raises InvalidVersion (or TypeError on None)
ParseRaises(tag) ==
    \/ tag = None
    \/ LET pieces == Split(ReleaseText(tag), ".")
       IN  \E i \in 1..Len(pieces) : ~IsNumber(pieces[i])

\* Version.release
Release(tag) ==
    LET pieces == Split(ReleaseText(tag), ".")
    IN  [i \in 1..Len(pieces) |-> IntOf(pieces[i], 0)]

\* the comparison key: the release without its trailing zeros
RECURSIVE DropTrailingZeros(_)
DropTrailingZeros(r) ==
    IF Len(r) > 0 /\ r[Len(r)] = 0 THEN DropTrailingZeros(SubSeq(r, 1, Len(r) - 1))
    ELSE r

\* tuple comparison a > b
RECURSIVE TupleGreater(_, _)
TupleGreater(a, b) ==
    IF Len(a) = 0 THEN FALSE
    ELSE IF Len(b) = 0 THEN TRUE
    ELSE IF Head(a) # Head(b) THEN Head(a) > Head(b)
    ELSE TupleGreater(Tail(a), Tail(b))

\* a comparison that takes equal versions for newer ones
VersionGreaterOrEqual(a, b) ==
    ~TupleGreater(DropTrailingZeros(Release(b)), DropTrailingZeros(Release(a)))

\* parse_version(a) > parse_version(b), both parseable
VersionGreater(a, b) ==
    TupleGreater(DropTrailingZeros(Release(a)), DropTrailingZeros(Release(b)))

\* a comparison that takes a tag it cannot parse for a newer version
NewerOrUnparsed(latest, current) ==
    IF ParseRaises(latest) \/ ParseRaises(current) THEN TRUE
    ELSE VersionGreater(latest, current)

\* lines 380-387 (and 394-401): the comparison inside its try block; the
\* handler of an exception of parse_version leaves the flag as it is, False
Newer(latest, current) ==
    IF ParseRaises(latest) \/ ParseRaises(current) THEN FALSE
    ELSE VersionGreater(latest, current)

\* a flag that offers the first installation as an update
UpdateFlagFirstInstall(latest, current) ==
    IF Truthy(latest) /\ Truthy(current) THEN Newer(latest, current)
    ELSE Truthy(latest)

\* lines 379-387 (and 393-401): the flag a component's comparison leaves
UpdateFlag(latest, current) ==
    IF Truthy(latest) /\ Truthy(current) THEN Newer(latest, current)
    ELSE FALSE

CURRENT_INSTALLER_VERSION == <<"v", "0", ".", "4", ".", "5">>

(***************************************************************************)
(* release.txt and installer_config.ini: a text file is a sequence of      *)
(* lines, each a str without its newline.                                  *)
(***************************************************************************)
BscKey == <<"BSC_Current_Version", " ", "=">>

InstallerKey == <<"BSC_installer_Current_version", " ", "=">>

\* line.split('=')[1].strip()
ValueOf(line) == Strip(Split(line, "=")[2])

\* the last line that starts with key decides; None when there is none
RECURSIVE ScanLines(_, _, _)
ScanLines(lines, key, acc) ==
    IF Len(lines) = 0 THEN acc
    ELSE LET line == Strip(Head(lines))
         IN  ScanLines(Tail(lines), key,
                       IF StartsWith(line, key) THEN ValueOf(line) ELSE acc)

\* get_release_file_path()
ReleaseFilePath(install_base_path) ==
    PathJoin(PathJoin(install_base_path, <<"Beam Server">>), <<"release", ".", "txt">>)

\* open(p, 'r') raises when p is no file that can be read (a directory)
OpenReadRaises(d, p) == ~IsFile(d, p)

\* a handler that lets the exception leave read_release_file
ReadFailedRaising == [raised |-> TRUE, versions |-> << None, None >>]

\* lines 327-328: "except Exception" prints the error of open(); the loop
\* did not run and both versions are still None
ReadFailed == [raised |-> FALSE, versions |-> << None, None >>]

\* lines 315-326, on the lines of the file
ScanRelease(lines) ==
    [raised |-> FALSE,
     versions |-> << ScanLines(lines, BscKey, None), ScanLines(lines, InstallerKey, None) >>]

\* read_release_file(): whether it raised, and what it returns
ReleaseReadOutcome(d, release_file_path) ==
    IF ~Exists(d, release_file_path) THEN [raised |-> FALSE, versions |-> << None, None >>]
    ELSE IF OpenReadRaises(d, release_file_path) THEN ReadFailed
    ELSE ScanRelease(d.files[Resolve(release_file_path)])

\* read_release_file(): <<bsc_version, installer_version>>
ReadReleaseFile(d, install_base_path) ==
    ReleaseReadOutcome(d, ReleaseFilePath(install_base_path)).versions

ReleaseLines(bsc_version, installer_version) ==
    << <<"BSC_Current_Version", " ", "=", " ">> \o Format(bsc_version),
       <<"BSC_installer_Current_version", " ", "=", " ">> \o Format(installer_version) >>

\* write_release_file(): any exception is printed and swallowed
\* (io_error: the operating system refuses the write)
WriteReleaseFile(d, install_base_path, bsc_version, installer_version, io_error) ==
    LET release_file_path == ReleaseFilePath(install_base_path)
    IN  IF io_error \/ MakeDirsRaises(d, DirName(release_file_path)) THEN d
        ELSE LET d1 == MakeDirs(d, DirName(release_file_path))
             IN  IF OpenWriteRaises(d1, release_file_path) THEN d1
                 ELSE WriteFile(d1, release_file_path,
                                ReleaseLines(bsc_version, installer_version))

(***************************************************************************)
(* installer_config.ini                                                    *)
(***************************************************************************)
\* os.path.dirname(os.path.abspath(__file__))
ScriptDir == <<SEP, "app">>

\* get_config_file_path()
ConfigFilePath == PathJoin(ScriptDir, <<"installer_config", ".", "ini">>)

\* os.path.join(os.path.expanduser("~"), "Documents", "Beam Server")
DefaultInstallPath == <<SEP, "home", SEP, "Documents", SEP, "Beam Server">>

ConfigKey == <<"InstallPath", "=">>

\* the loop of load_installation_path(): the first line whose path holds a
\* 'Beam Server' directory sets install_path; otherwise it keeps its value
RECURSIVE LoadLines(_, _, _)
LoadLines(d, lines, path) ==
    IF Len(lines) = 0 THEN path
    ELSE LET line == Strip(Head(lines))
         IN  IF StartsWith(line, ConfigKey)
                  /\ IsDir(d, PathJoin(ValueOf(line), <<"Beam Server">>))
             THEN ValueOf(line)
             ELSE LoadLines(d, Tail(lines), path)

\* load_installation_path(), called with install_path = default_install_path
LoadInstallationPath(d, path) ==
    IF IsFile(d, ConfigFilePath) THEN LoadLines(d, d.files[Resolve(ConfigFilePath)], path)
    ELSE path

ConfigLine(path) == <<"InstallPath", "=">> \o path

\* save_installation_path(path): any exception is printed and swallowed
SaveInstallationPath(d, path, io_error) ==
    IF io_error \/ OpenWriteRaises(d, ConfigFilePath) THEN d
    ELSE WriteFile(d, ConfigFilePath, <<ConfigLine(path)>>)

(***************************************************************************)
(* State                                                                   *)
(***************************************************************************)
VARIABLES
    disk,                   \* the file system
    install_path,           \* BSIInstaller.install_path (tk.StringVar)
    delete_zip_var,         \* BSIInstaller.delete_zip_var
    create_server_var,      \* BSIInstaller.create_server_var
    bsi_update_available,
    installer_update_available,
    latest_bsi_version,
    latest_installer_version,
    current_bsc_version,
    current_installer_installed_version,
    frame,                  \* the page show_frame() raised last
    action_button,          \* InstallProgressPage.action_button: state, text, command
    back_button,            \* InstallProgressPage.back_button: state
    progress_bar,           \* InstallProgressPage.progress_bar["value"]
    status_label,           \* InstallProgressPage.status_label: text, fg
    update_indicator,       \* WelcomePage.update_indicator is packed
    afterq,                 \* callbacks scheduled with after(), in order
    check_pc,               \* where the update-check thread is
    runs,                   \* the worker threads that run or ran last, in order
    started,                \* how many worker threads were started
    remote,                 \* what the remote end publishes during this session
    faults,                 \* how many failures the environment produced
    last                    \* the store operation performed last

vars == << disk, install_path, delete_zip_var, create_server_var,
           bsi_update_available, installer_update_available,
           latest_bsi_version, latest_installer_version,
           current_bsc_version, current_installer_installed_version,
           frame, action_button, back_button, progress_bar, status_label,
           update_indicator, afterq, check_pc, runs, started, remote, faults, last >>

appVars == << install_path, delete_zip_var, create_server_var >>

envVars == << started, remote, last >>

checkVars == << bsi_update_available, installer_update_available,
                latest_bsi_version, latest_installer_version,
                current_bsc_version, current_installer_installed_version >>

guiVars == << frame, action_button, back_button, progress_bar, status_label,
              update_indicator >>

Workers == 1..Len(runs)

\* the thread of this record is executing _run_installation or
\* _run_perform_update; the records of the threads that ended are kept
\* until the next thread is started
Alive(run) == run.pc \notin {"done", "dead"}

Running(w) == Alive(runs[w])

\* a messagebox opened by a worker is on screen (it is modal)
MsgPcs == {"msg_end", "u_msg_bsi", "u_msg_inst_ok", "u_msg_inst_err"}

DialogOpen == \E w \in Workers : runs[w].pc \in MsgPcs

(***************************************************************************)
(* Inputs: what the remote end and the operating system may answer.        *)
(***************************************************************************)
\* the environment may fail only while its budget of failures lasts
Spend(n) ==
    /\ faults + n <= MaxFaults
    /\ faults' = faults + n

\* 1 for an operation that failed, 0 for one that did not
N(failed) == IF failed THEN 1 ELSE 0

V1 == <<"v", "1">>

V2 == <<"v", "2">>

NewerInstaller == <<"v", "0", ".", "5">>

\* a JSON body that is no object: response.json().get raises AttributeError
BadShape == <<"<list>">>

\* what the request of get_latest_github_release_tag can bring: the tag of
\* the latest release, None (a failed request, or a body without tag_name),
\* or a body of another shape
BsiTags == {remote.bsi_tag, None, BadShape}

InstallerTags == {remote.installer_tag, None, BadShape}

B1 == <<SEP, "b">>

ExeBytes == <<"MZ", "exe">>

ScriptBytes == <<"py", "new">>

\* a stream cut in the middle leaves the first bytes in the file
Truncated(bytes) == SubSeq(bytes, 1, 1)

(***************************************************************************)
(* Initial disks: nothing installed, or an earlier installation under a    *)
(* base folder with its release.txt, and the config file of an earlier run *)
(***************************************************************************)
BareDisk == MakeDirs(MakeDirs(EmptyDisk, ScriptDir), DefaultInstallPath)

Installed(d, base, lines) ==
    LET beam == PathJoin(base, <<"Beam Server">>)
        d1   == MakeDirs(d, PathJoin(beam, <<"BSI">>))
        d2   == WriteFile(d1, PathJoin(beam, <<"README">>), <<"r", "0">>)
    IN  WriteFile(d2, ReleaseFilePath(base), lines)

WithConfig(d, path) == WriteFile(d, ConfigFilePath, <<ConfigLine(path)>>)

\* release.txt as an earlier version of the tool left it: component line only
OnlyBscLine(v) == << <<"BSC_Current_Version", " ", "=", " ">> \o v >>

\* what the remote end publishes: the latest tag of either repository and
\* the archive behind the component's download URL
Remote(bsi_tag, installer_tag, k) ==
    [bsi_tag |-> bsi_tag, installer_tag |-> installer_tag, archive |-> ZipBytes(k)]

\* the sessions explored: the disk the tool starts on, and the remote end
FreshSessions ==
    { \* nothing installed yet
      << BareDisk, Remote(V1, CURRENT_INSTALLER_VERSION, 1) >>,
      \* nothing installed yet, a crafted archive is served
      << BareDisk, Remote(V1, CURRENT_INSTALLER_VERSION, 3) >>,
      \* nothing installed yet, an archive without a root folder is served
      << WithConfig(BareDisk, B1), Remote(V1, CURRENT_INSTALLER_VERSION, 4) >> }

\* release 1 installed by a tool that wrote no installer line; only the
\* component has a newer release
OutdatedSession ==
    << WithConfig(Installed(BareDisk, B1, OnlyBscLine(V1)), B1),
       Remote(V2, CURRENT_INSTALLER_VERSION, 2) >>

InstalledSessions ==
    { OutdatedSession,
      \* release 1 installed by an older tool; both have a newer release
      << WithConfig(Installed(BareDisk, B1, ReleaseLines(V1, <<"v", "0", ".", "4">>)), B1),
         Remote(V2, NewerInstaller, 2) >>,
      \* the component is up to date, a newer tool is published
      << Installed(BareDisk, DefaultInstallPath, ReleaseLines(V2, <<"v", "0", ".", "4">>)),
         Remote(V2, NewerInstaller, 2) >> }

Sessions == FreshSessions \cup InstalledSessions

InitButton == [state |-> "normal", text |-> "Start Installation",
               command |-> "start_installation"]

\* BSIInstaller.__init__ and the pages' constructors
InitApp(d) ==
    /\ disk = d
    /\ install_path = LoadInstallationPath(d, DefaultInstallPath)
    /\ delete_zip_var = TRUE
    /\ create_server_var = FALSE
    /\ bsi_update_available = FALSE
    /\ installer_update_available = FALSE
    /\ latest_bsi_version = None
    /\ latest_installer_version = None
    /\ current_bsc_version = None
    /\ current_installer_installed_version = None
    /\ frame = "WelcomePage"
    /\ action_button = InitButton
    /\ back_button = "disabled"
    /\ progress_bar = 0
    /\ status_label = [text |-> "Ready...", fg |-> "#555"]
    /\ update_indicator = FALSE
    /\ afterq = << [fn |-> "start_update_check"] >>
    /\ check_pc = "idle"
    /\ runs = <<>>
    /\ started = 0
    /\ faults = 0
    /\ last = "init"

Init == \E s \in Sessions : InitApp(s[1]) /\ remote = s[2]

\* the tool is started where an older release of the component is installed
InitOutdated == InitApp(OutdatedSession[1]) /\ remote = OutdatedSession[2]

(***************************************************************************)
(* The update-check thread                                                 *)
(***************************************************************************)
\* get_latest_github_release_tag: a failed request (RequestException) gives
\* None; an exception of another kind leaves the function
ResolverRaises(answer) == answer = BadShape

ResolverResult(answer) == answer

\* line 367
CheckRead ==
    /\ check_pc = "read"
    /\ \E o \in {ReleaseReadOutcome(disk, ReleaseFilePath(install_path))} :
          IF o.raised
          THEN /\ check_pc' = "raised_read"
               /\ UNCHANGED << current_bsc_version, current_installer_installed_version >>
          ELSE /\ check_pc' = "bsi"
               /\ current_bsc_version' = o.versions[1]
               /\ current_installer_installed_version' = o.versions[2]
    /\ UNCHANGED << disk, appVars, guiVars, afterq, runs, envVars, faults,
                    bsi_update_available, installer_update_available,
                    latest_bsi_version, latest_installer_version >>

\* line 370
CheckBsi ==
    /\ check_pc = "bsi"
    /\ \E answer \in BsiTags :
          /\ Spend(N(answer # remote.bsi_tag))
          /\ IF ResolverRaises(answer)
             THEN check_pc' = "dead" /\ UNCHANGED latest_bsi_version
             ELSE check_pc' = "installer" /\ latest_bsi_version' = ResolverResult(answer)
    /\ UNCHANGED << disk, appVars, guiVars, afterq, runs, envVars,
                    bsi_update_available, installer_update_available,
                    latest_installer_version,
                    current_bsc_version, current_installer_installed_version >>

\* lines 371-404
CheckInstaller ==
    /\ check_pc = "installer"
    /\ \E answer \in InstallerTags :
          /\ Spend(N(answer # remote.installer_tag))
          /\ IF ResolverRaises(answer)
             THEN /\ check_pc' = "dead"
                  /\ UNCHANGED << latest_installer_version, bsi_update_available,
                                  installer_update_available, afterq >>
             ELSE /\ latest_installer_version' = ResolverResult(answer)
                  /\ bsi_update_available' =
                        UpdateFlag(latest_bsi_version, current_bsc_version)
                  /\ installer_update_available' =
                        UpdateFlag(ResolverResult(answer), CURRENT_INSTALLER_VERSION)
                  /\ afterq' = Append(afterq, [fn |-> "update_update_indicator"])
                  /\ check_pc' = "done"
    /\ UNCHANGED << disk, appVars, frame, action_button, back_button, progress_bar,
                    status_label, update_indicator, runs, envVars, latest_bsi_version,
                    current_bsc_version, current_installer_installed_version >>

(***************************************************************************)
(* The Tk event loop: scheduled callbacks and the user's clicks            *)
(***************************************************************************)
Status(message, progress_value, error, success) ==
    [message |-> message, progress_value |-> progress_value,
     error |-> error, success |-> success]

\* InstallProgressPage.update_status: self.after(10, self._update_gui_elements, ...)
Scheduled(statuses) ==
    [i \in 1..Len(statuses) |-> [fn |-> "_update_gui_elements", args |-> statuses[i]]]

\* the state of action_button after _update_gui_elements(st)
GuiActionButton(b, st) ==
    IF st.error THEN [b EXCEPT !.state = "normal", !.text = "Error Occurred"]
    ELSE IF st.success
         THEN [b EXCEPT !.state = "normal", !.text = "Finish", !.command = "destroy"]
    ELSE [b EXCEPT !.state = IF st.progress_value < 100 THEN "disabled" ELSE "normal"]

\* the widgets, and the update-check thread the event loop starts
Gui ==
    [frame |-> frame, action_button |-> action_button, back_button |-> back_button,
     progress_bar |-> progress_bar, status_label |-> status_label,
     update_indicator |-> update_indicator, check_pc |-> check_pc]

\* InstallProgressPage._update_gui_elements
UpdateGuiElements(g, st) ==
    [g EXCEPT !.progress_bar = st.progress_value,
              !.status_label = [text |-> st.message,
                                fg |-> IF st.error THEN "red"
                                       ELSE IF st.success THEN "green" ELSE "#555"],
              !.action_button = GuiActionButton(@, st),
              !.back_button = IF st.error THEN "normal"
                              ELSE IF st.success THEN "disabled" ELSE @]

\* the callback cb runs: start_update_check starts the thread,
\* WelcomePage.update_update_indicator shows or hides the update button
RunCallback(g, cb) ==
    CASE cb.fn = "start_update_check" -> [g EXCEPT !.check_pc = "read"]
      [] cb.fn = "update_update_indicator" ->
            [g EXCEPT !.update_indicator =
                          (bsi_update_available \/ installer_update_available)]
      [] cb.fn = "_update_gui_elements" -> UpdateGuiElements(g, cb.args)

RECURSIVE RunCallbacks(_, _)
RunCallbacks(g, q) ==
    IF Len(q) = 0 THEN g ELSE RunCallbacks(RunCallback(g, Head(q)), Tail(q))

\* the widgets become g
SetGui(g) ==
    /\ frame' = g.frame
    /\ action_button' = g.action_button
    /\ back_button' = g.back_button
    /\ progress_bar' = g.progress_bar
    /\ status_label' = g.status_label
    /\ update_indicator' = g.update_indicator
    /\ check_pc' = g.check_pc

\* the event loop runs the callback scheduled first
ProcessAfter ==
    /\ frame # "closed"
    /\ Len(afterq) > 0
    /\ afterq' = Tail(afterq)
    /\ SetGui(RunCallback(Gui, Head(afterq)))
    /\ UNCHANGED << disk, appVars, checkVars, runs, envVars, faults >>

\* the user can reach the widgets of the raised page when no dialog is open
CanClick(page) == frame = page /\ ~DialogOpen

\* the user goes on working with the pages while a run can still be started
MoreRuns == started < MaxRuns

\* WelcomePage "Next >" / InstallOptionsPage "< Back" / progress page "< Back"
ShowFrame ==
    /\ MoreRuns
    /\ \/ CanClick("WelcomePage") /\ frame' = "InstallOptionsPage"
       \/ CanClick("InstallOptionsPage") /\ frame' = "WelcomePage"
       \/ CanClick("InstallProgressPage") /\ back_button = "normal"
            /\ frame' = "InstallOptionsPage"
    /\ UNCHANGED << disk, appVars, checkVars, action_button, back_button, progress_bar,
                    status_label, update_indicator, afterq, check_pc, runs, envVars, faults >>

\* InstallOptionsPage: the two checkboxes; the path entry keeps the path
\* that load_installation_path gave it
SetOptions ==
    /\ MoreRuns
    /\ CanClick("InstallOptionsPage")
    /\ \/ delete_zip_var' = ~delete_zip_var /\ UNCHANGED create_server_var
       \/ create_server_var' = ~create_server_var /\ UNCHANGED delete_zip_var
    /\ UNCHANGED install_path
    /\ UNCHANGED << disk, checkVars, guiVars, afterq, check_pc, runs, envVars, faults >>

NewRun(kind, log) ==
    [kind |-> kind, pc |-> IF kind = "install" THEN "i_begin" ELSE "u_begin",
     install_base_path |-> None, bsi_version_to_install |-> None,
     update_success |-> TRUE,
     \* history of the run, for the properties: the statuses it passed to
     \* update_status, the disk and the failures spent when it was started,
     \* the disk its extraction left, the value it read from create_server_var,
     \* what happened to the process it launched
     log |-> log, disk0 |-> disk, faults0 |-> faults, extracted |-> EmptyDisk,
     create_server |-> FALSE, process |-> <<>>]

\* InstallProgressPage.reset_status followed by action_button.config(state=DISABLED)
ResetStatus ==
    /\ progress_bar' = 0
    /\ status_label' = [text |-> "Preparing installation...", fg |-> "#555"]
    /\ action_button' = [action_button EXCEPT !.text = "Starting...",
                                              !.state = "disabled"]
    /\ back_button' = "disabled"

\* BSIInstaller.start_installation
StartInstallationBody ==
    /\ started < MaxRuns
    /\ started' = started + 1
    /\ frame' = "InstallProgressPage"
    /\ ResetStatus
    /\ runs' = Append(SelectSeq(runs, Alive), NewRun("install", <<>>))
    /\ UNCHANGED << disk, appVars, checkVars, update_indicator, afterq, check_pc,
                    remote, faults, last >>

\* "Install >" on the options page, or the progress page's action button
\* while its command is still start_installation
StartInstallation ==
    /\ \/ CanClick("InstallOptionsPage")
       \/ /\ CanClick("InstallProgressPage")
          /\ action_button.state = "normal"
          /\ action_button.command = "start_installation"
    /\ StartInstallationBody

\* WelcomePage "Update": show_update_dialog, answered yes, start_perform_update
StartPerformUpdate ==
    /\ CanClick("WelcomePage")
    /\ bsi_update_available \/ installer_update_available
    /\ started < MaxRuns
    /\ started' = started + 1
    /\ frame' = "InstallProgressPage"
    /\ ResetStatus
    /\ LET st == Status("Starting update process...", 0, FALSE, FALSE)
       IN  /\ afterq' = afterq \o Scheduled(<<st>>)
           /\ runs' = Append(SelectSeq(runs, Alive), NewRun("update", <<st>>))
    /\ UNCHANGED << disk, appVars, checkVars, update_indicator, check_pc, remote,
                    faults, last >>

\* the action button once its command is self.controller.destroy
Destroy ==
    /\ CanClick("InstallProgressPage")
    /\ action_button.state = "normal"
    /\ action_button.command = "destroy"
    /\ frame' = "closed"
    /\ UNCHANGED << disk, appVars, checkVars, action_button, back_button, progress_bar,
                    status_label, update_indicator, afterq, check_pc, runs, envVars, faults >>

(***************************************************************************)
(* _run_installation, one action per step of the worker thread             *)
(***************************************************************************)
BeamServerPath(base) == PathJoin(base, <<"Beam Server">>)

BsiFolderPath(base) == PathJoin(BeamServerPath(base), <<"BSI">>)

\* os.path.join(beam_server_path, f"{BSI_REPO_NAME}-{version}.zip")
BsiZipFilename(base, version) ==
    PathJoin(BeamServerPath(base), RootMark \o Format(version) \o <<".", "zip">>)

Server1FolderPath(base) == PathJoin(BeamServerPath(base), <<"Server 1">>)

BeammpExeDest(base) == PathJoin(Server1FolderPath(base), <<"BeamMP-Server", ".", "exe">>)

ShortcutPath(base) == PathJoin(BeamServerPath(base), <<"start_beammp_server", ".", "sh">>)

ServerConfigName == <<"ServerConfig", ".", "toml">>

Progress(message, value) == Status(message, value, FALSE, FALSE)

Failure(message) == Status(message, 100, TRUE, FALSE)

Success(message, value) == Status(message, value, FALSE, TRUE)

\* a step of worker w: it calls update_status for each of statuses, leaves
\* the disk as d and its own record as run
Advance(w, run, statuses, d) ==
    /\ runs' = [runs EXCEPT ![w] = [run EXCEPT !.log = @ \o statuses]]
    /\ afterq' = afterq \o Scheduled(statuses)
    /\ disk' = d
    /\ UNCHANGED << appVars, checkVars, guiVars, check_pc, envVars >>

\* the step goes on at pc
WorkerStep(w, pc, statuses, d) == Advance(w, [runs[w] EXCEPT !.pc = pc], statuses, d)

\* an extraction that records the release at once
ExtractedRecording(w, pc, statuses, d) ==
    Advance(w, [runs[w] EXCEPT !.pc = pc, !.extracted = d], statuses,
            WriteReleaseFile(d, install_path, runs[w].bsi_version_to_install,
                             CURRENT_INSTALLER_VERSION, FALSE))

\* the step that extracted the archive
Extracted(w, pc, statuses, d) ==
    Advance(w, [runs[w] EXCEPT !.pc = pc, !.extracted = d], statuses, d)

\* a run that provisions the server whatever the checkbox says
AfterDisposeAlways(create_server) == "i_server"

\* line 184: the step after the archive was disposed of
AfterDispose(create_server) == IF create_server THEN "i_server" ELSE "i_persist"

\* the step that disposed of the archive and read create_server_var
Disposed(w, statuses, d) ==
    Advance(w, [runs[w] EXCEPT !.pc = AfterDispose(create_server_var),
                               !.create_server = create_server_var], statuses, d)

\* a failure that rolls back what the run placed on disk
FailStepRollingBack(w, statuses, message, d) ==
    WorkerStep(w, "msg_end", Append(statuses, Failure(message)), runs[w].disk0)

\* a step that ends the run with an error status and its messagebox
FailStep(w, statuses, message, d) ==
    WorkerStep(w, "msg_end", Append(statuses, Failure(message)), d)

\* the handler of the outer "except Exception" (lines 262-264)
Unexpected(w, statuses, d) == FailStep(w, statuses, "An error occurred", d)

\* lines 100-108
IBegin(w) ==
    /\ runs[w].pc = "i_begin"
    /\ LET fetch == ~Truthy(latest_bsi_version)
           sts   == IF fetch
                    THEN << Progress("Fetching latest BSI version for installation...", 15) >>
                    ELSE <<>>
       IN  /\ runs' = [runs EXCEPT ![w].pc = IF fetch THEN "i_resolve" ELSE "i_mkroot",
                                   ![w].install_base_path = install_path,
                                   ![w].bsi_version_to_install = latest_bsi_version,
                                   ![w].log = @ \o sts]
           /\ afterq' = afterq \o Scheduled(sts)
    /\ UNCHANGED << disk, appVars, checkVars, guiVars, check_pc, envVars, faults >>

\* a run that goes on without a version
UnresolvedIgnored(bsi_version_to_install) == FALSE

\* line 110: "if not bsi_version_to_install"
Unresolved(bsi_version_to_install) == ~Truthy(bsi_version_to_install)

\* lines 109-113
IResolve(w) ==
    /\ runs[w].pc = "i_resolve"
    /\ \E answer \in BsiTags :
          /\ Spend(N(answer # remote.bsi_tag))
          /\ IF ResolverRaises(answer)
             THEN /\ runs' = [runs EXCEPT ![w].pc = "dead"]
                  /\ UNCHANGED << disk, afterq >>
             ELSE IF Unresolved(ResolverResult(answer))
             THEN /\ LET sts == << Failure("Could not determine latest BSI version") >>
                     IN  /\ runs' = [runs EXCEPT ![w].pc = "msg_end", ![w].log = @ \o sts]
                         /\ afterq' = afterq \o Scheduled(sts)
                  /\ UNCHANGED disk
             ELSE /\ runs' = [runs EXCEPT ![w].pc = "i_mkroot",
                                          ![w].bsi_version_to_install = ResolverResult(answer)]
                  /\ UNCHANGED << disk, afterq >>
    /\ UNCHANGED << appVars, checkVars, guiVars, check_pc, envVars >>

\* lines 120-121
IMkRoot(w) ==
    /\ runs[w].pc = "i_mkroot"
    /\ LET beam == BeamServerPath(runs[w].install_base_path)
           sts  == << Progress("Creating 'Beam Server' folder...", 5) >>
       IN  \E io_error \in BOOLEAN :
             /\ Spend(N(io_error))
             /\ IF io_error \/ MakeDirsRaises(disk, beam) THEN Unexpected(w, sts, disk)
                ELSE WorkerStep(w, "i_mkbsi", sts, MakeDirs(disk, beam))

\* lines 124-125
IMkBsi(w) ==
    /\ runs[w].pc = "i_mkbsi"
    /\ LET bsi == BsiFolderPath(runs[w].install_base_path)
           sts == << Progress("Creating 'BSI' folder...", 10) >>
       IN  /\ Spend(0)
           /\ IF MakeDirsRaises(disk, bsi) THEN Unexpected(w, sts, disk)
              ELSE WorkerStep(w, "i_download", sts, MakeDirs(disk, bsi))

(***************************************************************************)
(* requests.get(url, stream=True) streamed into open(dest, 'wb')           *)
(***************************************************************************)
Refused == [kind |-> "refused", body |-> <<>>]

Cut(body) == [kind |-> "cut", body |-> body]

Served(body) == [kind |-> "ok", body |-> body]

\* what the request for the component archive can bring
ArchiveAnswers ==
    {Refused, Cut(remote.archive), Served(NotZipBytes), Served(remote.archive)}

ExeAnswers == {Refused, Cut(ExeBytes), Served(ExeBytes)}

ScriptAnswers == {Refused, Cut(ScriptBytes), Served(ScriptBytes)}

\* result: "ok", "request_error" (requests.exceptions.RequestException) or
\* "os_error" (open() raised), and the disk it leaves
Fetch(d, dest, answer) ==
    IF answer.kind = "refused" THEN [result |-> "request_error", disk |-> d]
    ELSE IF OpenWriteRaises(d, dest) THEN [result |-> "os_error", disk |-> d]
    ELSE IF answer.kind = "cut"
         THEN [result |-> "request_error",
               disk |-> WriteFile(d, dest, Truncated(answer.body))]
    ELSE [result |-> "ok", disk |-> WriteFile(d, dest, answer.body)]

\* lines 128-138
IDownload(w) ==
    /\ runs[w].pc = "i_download"
    /\ LET zip == BsiZipFilename(runs[w].install_base_path, runs[w].bsi_version_to_install)
           sts == << Progress("Downloading BSI zipfile", 20) >>
       IN  \E answer \in ArchiveAnswers :
             \E r \in {Fetch(disk, zip, answer)} :
                 /\ Spend(N(answer # Served(remote.archive)))
                 /\ CASE r.result = "ok" -> WorkerStep(w, "i_extract", sts, r.disk)
                      [] r.result = "request_error" ->
                           FailStep(w, sts, "Error downloading BSI zip", r.disk)
                      [] r.result = "os_error" -> Unexpected(w, sts, r.disk)

\* lines 141-172
IExtract(w) ==
    /\ runs[w].pc = "i_extract"
    /\ LET base == runs[w].install_base_path
           zip  == BsiZipFilename(base, runs[w].bsi_version_to_install)
           sts  == << Progress("Extracting BSI zipfile...", 40) >>
       IN  \E r \in {ExtractZip(disk, zip, BeamServerPath(base))} :
           /\ Spend(0)
           /\ CASE r.status = "ok" -> Extracted(w, "i_dispose", sts, r.disk)
                [] r.status = "badzip" ->
                     FailStep(w, sts, "Error: Downloaded BSI zip is corrupted.", r.disk)
                [] r.status = "error" ->
                     FailStep(w, sts, "Error during BSI zip extraction", r.disk)

\* lines 175-184
IDispose(w) ==
    /\ runs[w].pc = "i_dispose"
    /\ LET base == runs[w].install_base_path
           zip  == BsiZipFilename(base, runs[w].bsi_version_to_install)
           dst  == PathJoin(BsiFolderPath(base), BaseName(zip))
           st50 == Progress("Handling BSI zipfile...", 50)
       IN  \E io_error \in BOOLEAN :
             /\ Spend(N(io_error))
             /\ IF delete_zip_var
                THEN IF io_error \/ RemoveRaises(disk, zip) THEN Unexpected(w, <<st50>>, disk)
                     ELSE Disposed(w, << st50, Progress("Deleted BSI zipfile.", 55) >>,
                                 Remove(disk, zip))
                ELSE IF io_error \/ MoveRaises(disk, zip, dst)
                     THEN Unexpected(w, <<st50>>, disk)
                     ELSE Disposed(w, << st50,
                                      Progress("Moved BSI zipfile to BSI folder.", 55) >>,
                                   Move(disk, zip, dst))

\* lines 185-192
IServer(w) ==
    /\ runs[w].pc = "i_server"
    /\ LET client == PathJoin(PathJoin(Server1FolderPath(runs[w].install_base_path),
                                       <<"Resource">>), <<"Client">>)
           sts    == << Progress("Setting up BeamMP server...", 60) >>
       IN  /\ Spend(0)
           /\ IF MakeDirsRaises(disk, client) THEN Unexpected(w, sts, disk)
              ELSE WorkerStep(w, "i_exe", sts, MakeDirs(disk, client))

\* lines 194-205
IExe(w) ==
    /\ runs[w].pc = "i_exe"
    /\ LET sts == << Progress("Downloading BeamMP-Server.exe...", 65) >>
       IN  \E answer \in ExeAnswers :
             \E r \in {Fetch(disk, BeammpExeDest(runs[w].install_base_path), answer)} :
                 /\ Spend(N(answer # Served(ExeBytes)))
                 /\ CASE r.result = "ok" -> WorkerStep(w, "i_run", sts, r.disk)
                      [] r.result = "request_error" ->
                           FailStep(w, sts, "Error downloading BeamMP-Server.exe", r.disk)
                      [] r.result = "os_error" -> Unexpected(w, sts, r.disk)

\* what the launched executable does before it is terminated: it writes its
\* configuration file into its working directory, or nothing yet
BootstrapEffects(d, cwd) ==
    {d} \cup (IF OpenWriteRaises(d, PathJoin(cwd, ServerConfigName)) THEN {}
             ELSE {WriteFile(d, PathJoin(cwd, ServerConfigName), <<"toml">>)})

\* the handler of the "except Exception" around Popen, sleep, terminate and
\* wait (lines 221-224)
ExecutionError(w, statuses, d) == FailStep(w, statuses, "Error running BeamMP-Server.exe", d)

\* lines 208-216: subprocess.Popen; the status of the step is passed first
IRun(w) ==
    /\ runs[w].pc = "i_run"
    /\ LET sts == << Progress("Running BeamMP-Server.exe to initialize...", 75) >>
       IN  \/ \* Popen raises: the executable cannot be launched
              Spend(1) /\ ExecutionError(w, sts, disk)
           \/ /\ Spend(0)
              /\ Advance(w, [runs[w] EXCEPT !.pc = "i_terminate",
                                            !.process = Append(@, "Popen")], sts, disk)

\* lines 218-219: time.sleep(2), in which the process does its work, then
\* process.terminate()
ITerminate(w) ==
    /\ runs[w].pc = "i_terminate"
    /\ \E d \in BootstrapEffects(disk, Server1FolderPath(runs[w].install_base_path)) :
          \/ \* terminate() raises
             Spend(1) /\ ExecutionError(w, <<>>, d)
          \/ /\ Spend(0)
             /\ Advance(w, [runs[w] EXCEPT !.pc = "i_wait",
                                           !.process = Append(@, "terminate")], <<>>, d)

\* a wait that returns while the process is still there
WaitedWithoutExit(process) == process

\* process.wait() returns when the process has exited
Waited(process) == Append(process, "exit")

\* line 220: process.wait()
IWait(w) ==
    /\ runs[w].pc = "i_wait"
    /\ \/ \* wait() raises
          Spend(1) /\ ExecutionError(w, <<>>, disk)
       \/ /\ Spend(0)
          /\ Advance(w, [runs[w] EXCEPT !.pc = "i_shortcut",
                                        !.process = Waited(@)], <<>>, disk)

\* lines 227-235
IShortcut(w) ==
    /\ runs[w].pc = "i_shortcut"
    /\ LET shortcut_path == ShortcutPath(runs[w].install_base_path)
           sts == << Progress("Creating BeamMP-Server shortcut...", 85) >>
       IN  \E io_error \in BOOLEAN :
             /\ Spend(N(io_error))
             /\ IF io_error \/ OpenWriteRaises(disk, shortcut_path)
                THEN Unexpected(w, sts, disk)
                ELSE WorkerStep(w, "i_verify", sts,
                                WriteFile(disk, shortcut_path, <<"#!/bin/bash">>))

\* lines 237-252
IVerify(w) ==
    /\ runs[w].pc = "i_verify"
    /\ LET base   == runs[w].install_base_path
           st90   == Progress("Verifying BeamMP-Server files...", 90)
           main   == PathJoin(BeamServerPath(base), ServerConfigName)
           inside == PathJoin(Server1FolderPath(base), ServerConfigName)
           moves  == Exists(disk, main) /\ ~Exists(disk, inside)
           d1     == IF moves THEN Move(disk, main, inside) ELSE disk
           sts    == IF moves
                     THEN << st90, Progress("Moved ServerConfig.toml to 'Server 1' folder.", 95) >>
                     ELSE << st90 >>
       IN  Spend(0) /\
           IF ~Exists(disk, BeammpExeDest(base))
           THEN FailStep(w, <<st90>>, "Error: BeamMP-Server.exe not found where expected.", disk)
           ELSE IF moves /\ MoveRaises(disk, main, inside) THEN Unexpected(w, <<st90>>, disk)
           ELSE IF ~Exists(d1, ShortcutPath(base))
                THEN FailStep(w, sts, "Error: Shortcut not found where expected.", d1)
           ELSE WorkerStep(w, "i_persist", sts, d1)

\* lines 255-260
IPersist(w) ==
    /\ runs[w].pc = "i_persist"
    /\ \E e1 \in BOOLEAN, e2 \in BOOLEAN :
          LET d1 == WriteReleaseFile(disk, install_path, runs[w].bsi_version_to_install,
                                     CURRENT_INSTALLER_VERSION, e1)
              d2 == SaveInstallationPath(d1, runs[w].install_base_path, e2)
          IN  /\ Spend(N(e1) + N(e2))
              /\ WorkerStep(w, "msg_end", << Success("Installation complete!", 100) >>, d2)

\* the user closes the messagebox that ends a run
DismissEnd(w) ==
    /\ runs[w].pc = "msg_end"
    /\ runs' = [runs EXCEPT ![w].pc = "done"]
    /\ UNCHANGED << disk, appVars, checkVars, guiVars, afterq, check_pc, envVars, faults >>

(***************************************************************************)
(* _run_perform_update                                                     *)
(***************************************************************************)
\* a or b
Or(a, b) == IF Truthy(a) THEN a ELSE b

\* os.path.join(os.path.dirname(__file__), "bsi_installer_new_version.py")
TempNewInstallerPath == PathJoin(ScriptDir, <<"bsi_installer_new_version", ".", "py">>)

\* lines 443-450
UBegin(w) ==
    /\ runs[w].pc = "u_begin"
    /\ LET sts == IF bsi_update_available
                  THEN << Progress("Updating BSI (BeamMP Server Creator)", 10) >>
                  ELSE <<>>
       IN  /\ runs' = [runs EXCEPT
                         ![w].pc = IF bsi_update_available THEN "u_download"
                                   ELSE "u_installer",
                         ![w].update_success = TRUE,
                         ![w].install_base_path =
                             IF bsi_update_available THEN install_path ELSE @,
                         ![w].bsi_version_to_install =
                             IF bsi_update_available THEN latest_bsi_version ELSE @,
                         ![w].log = @ \o sts]
           /\ afterq' = afterq \o Scheduled(sts)
    /\ UNCHANGED << disk, appVars, checkVars, guiVars, check_pc, envVars, faults >>

\* lines 453-458, and the handlers of lines 485-492
UDownload(w) ==
    /\ runs[w].pc = "u_download"
    /\ LET zip == BsiZipFilename(runs[w].install_base_path, runs[w].bsi_version_to_install)
       IN  \E answer \in ArchiveAnswers :
             \E r \in {Fetch(disk, zip, answer)} :
                 Spend(N(answer # Served(remote.archive))) /\
                 CASE r.result = "ok" ->
                        WorkerStep(w, "u_extract", << Progress("BSI zip downloaded.", 20) >>,
                                   r.disk)
                   [] r.result = "request_error" ->
                        WorkerStep(w, "u_msg_bsi", << Failure("Error updating BSI") >>, r.disk)
                   [] r.result = "os_error" ->
                        WorkerStep(w, "u_msg_bsi",
                                   << Failure("Error extracting BSI update") >>, r.disk)

\* lines 461-479
UExtract(w) ==
    /\ runs[w].pc = "u_extract"
    /\ LET base == runs[w].install_base_path
           zip  == BsiZipFilename(base, runs[w].bsi_version_to_install)
           st30 == Progress("Extracting new BSI files...", 30)
       IN  \E r \in {ExtractZip(disk, zip, BeamServerPath(base))} :
           Spend(0) /\
           IF r.status = "ok"
           THEN Extracted(w, "u_apply", << st30, Progress("BSI extracted.", 40) >>, r.disk)
           ELSE WorkerStep(w, "u_msg_bsi",
                           << st30, Failure("Error extracting BSI update") >>, r.disk)

\* lines 480-484
UApply(w) ==
    /\ runs[w].pc = "u_apply"
    /\ LET zip == BsiZipFilename(runs[w].install_base_path, runs[w].bsi_version_to_install)
       IN  \E io_error \in BOOLEAN, e1 \in BOOLEAN :
             Spend(N(io_error) + N(e1)) /\
             IF io_error \/ RemoveRaises(disk, zip)
             THEN WorkerStep(w, "u_msg_bsi",
                             << Failure("Error extracting BSI update") >>, disk)
             ELSE WorkerStep(w, "u_installer",
                             << Progress("BSI updated successfully!", 50) >>,
                             WriteReleaseFile(Remove(disk, zip), install_path,
                                 latest_bsi_version,
                                 Or(current_installer_installed_version,
                                    CURRENT_INSTALLER_VERSION), e1))

\* a handler that closes the messagebox and leaves update_success as it is
UDismissBsiKeepingSuccess(w) ==
    /\ runs[w].pc = "u_msg_bsi"
    /\ runs' = [runs EXCEPT ![w].pc = "u_installer"]
    /\ UNCHANGED << disk, appVars, checkVars, guiVars, afterq, check_pc, envVars, faults >>

\* the messagebox of lines 487/491 is closed; update_success = False
UDismissBsi(w) ==
    /\ runs[w].pc = "u_msg_bsi"
    /\ runs' = [runs EXCEPT ![w].pc = "u_installer", ![w].update_success = FALSE]
    /\ UNCHANGED << disk, appVars, checkVars, guiVars, afterq, check_pc, envVars, faults >>

\* lines 494-495
UInstaller(w) ==
    /\ runs[w].pc = "u_installer"
    /\ Spend(0)
    /\ IF installer_update_available /\ runs[w].update_success
       THEN WorkerStep(w, "u_inst_dl", << Progress("Updating BSI Installer", 60) >>, disk)
       ELSE WorkerStep(w, "u_final", <<>>, disk)

\* lines 497-515, and the handlers of lines 524-531
UInstDl(w) ==
    /\ runs[w].pc = "u_inst_dl"
    /\ \E answer \in ScriptAnswers, e1 \in BOOLEAN :
          \E r \in {Fetch(disk, TempNewInstallerPath, answer)} :
              Spend(N(answer # Served(ScriptBytes)) + N(e1)) /\
              CASE r.result = "ok" ->
                     WorkerStep(w, "u_msg_inst_ok",
                         << Progress("New installer script downloaded.", 80),
                            Success("Installer update downloaded.", 90) >>,
                         WriteReleaseFile(r.disk, install_path,
                             Or(current_bsc_version, latest_bsi_version),
                             latest_installer_version, e1))
                [] r.result = "request_error" ->
                     WorkerStep(w, "u_msg_inst_err",
                                << Failure("Error updating BSI Installer") >>, r.disk)
                [] r.result = "os_error" ->
                     WorkerStep(w, "u_msg_inst_err",
                                << Failure("Error handling installer update") >>, r.disk)

\* the messagebox of line 516 is closed; lines 521-522
UDismissInstOk(w) ==
    /\ runs[w].pc = "u_msg_inst_ok"
    /\ runs' = [runs EXCEPT ![w].pc = "u_final", ![w].update_success = TRUE]
    /\ action_button' = [action_button EXCEPT !.state = "disabled"]
    /\ UNCHANGED << disk, appVars, checkVars, frame, back_button, progress_bar,
                    status_label, update_indicator, afterq, check_pc, envVars, faults >>

\* the messagebox of lines 526/530 is closed; update_success = False
UDismissInstErr(w) ==
    /\ runs[w].pc = "u_msg_inst_err"
    /\ runs' = [runs EXCEPT ![w].pc = "u_final", ![w].update_success = FALSE]
    /\ UNCHANGED << disk, appVars, checkVars, guiVars, afterq, check_pc, envVars, faults >>

\* lines 533-537
UFinal(w) ==
    /\ runs[w].pc = "u_final"
    /\ Spend(0)
    /\ IF runs[w].update_success
       THEN WorkerStep(w, "msg_end",
                       << Success("All selected updates completed!", 100) >>, disk)
       ELSE WorkerStep(w, "done",
                       << Failure("Update process finished with errors.") >>, disk)

(***************************************************************************)
(* The program                                                             *)
(***************************************************************************)
InstallStep ==
    \E w \in Workers :
        \/ IBegin(w) \/ IResolve(w) \/ IMkRoot(w) \/ IMkBsi(w) \/ IDownload(w)
        \/ IExtract(w) \/ IDispose(w) \/ IServer(w) \/ IExe(w) \/ IRun(w)
        \/ ITerminate(w) \/ IWait(w) \/ IShortcut(w) \/ IVerify(w) \/ IPersist(w) \/ DismissEnd(w)

UpdateStep ==
    \E w \in Workers :
        \/ UBegin(w) \/ UDownload(w) \/ UExtract(w) \/ UApply(w) \/ UDismissBsi(w)
        \/ UInstaller(w) \/ UInstDl(w) \/ UDismissInstOk(w) \/ UDismissInstErr(w)
        \/ UFinal(w)

Next ==
    \/ CheckRead \/ CheckBsi \/ CheckInstaller
    \/ ProcessAfter \/ ShowFrame \/ SetOptions
    \/ StartInstallation \/ StartPerformUpdate \/ Destroy
    \/ InstallStep \/ UpdateStep

Spec == Init /\ [][Next]_vars

SpecOutdated == InitOutdated /\ [][Next]_vars

(***************************************************************************)
(* The program when the event loop comes to the scheduled callbacks only   *)
(* between the runs of the workers: the widgets follow a run after it      *)
(* ended, so the user starts the next run after the one before returned    *)
(***************************************************************************)
Quiet == \A w \in Workers : ~Running(w)

\* the event loop runs every callback scheduled, in the order of scheduling
ServeAfter ==
    /\ Quiet
    /\ frame # "closed"
    /\ Len(afterq) > 0
    /\ afterq' = <<>>
    /\ SetGui(RunCallbacks(Gui, afterq))
    /\ UNCHANGED << disk, appVars, checkVars, runs, envVars, faults >>

NextSerial ==
    \/ CheckRead \/ CheckBsi \/ CheckInstaller
    \/ ServeAfter \/ ShowFrame \/ SetOptions
    \/ StartInstallation \/ StartPerformUpdate \/ Destroy
    \/ InstallStep \/ UpdateStep

SpecSerial == Init /\ [][NextSerial]_vars

(***************************************************************************)
(* The startup update check over many pairs of recorded and published tags *)
(***************************************************************************)
\* tags that packaging.version parses
ParseableTags ==
    { <<"v", "1">>, <<"1", ".", "0">>, <<"v", "1", ".", "2">>,
      <<"v", "1", ".", "1", "0">>, <<"v", "2">>, <<"v", "1", "0">>,
      <<"0", ".", "9", ".", "9">> }

\* a tag that packaging.version rejects
NamedTag == <<"n", "e", "w">>

\* release.txt as a tool left it that recorded no component
OnlyInstallerLine(v) == << <<"BSC_installer_Current_version", " ", "=", " ">> \o v >>

\* the disks the check can find: no release file, no component line, or a
\* recorded component tag
CheckDisks ==
    { BareDisk,
      Installed(BareDisk, DefaultInstallPath, OnlyInstallerLine(CURRENT_INSTALLER_VERSION)) }
    \cup { Installed(BareDisk, DefaultInstallPath, ReleaseLines(a, CURRENT_INSTALLER_VERSION)) :
             a \in ParseableTags \cup {NamedTag} }

InitCheck ==
    \E d \in CheckDisks, b \in ParseableTags \cup {NamedTag},
       c \in {CURRENT_INSTALLER_VERSION, NewerInstaller} :
        InitApp(d) /\ remote = Remote(b, c, 1)

NextCheck == ProcessAfter \/ CheckRead \/ CheckBsi \/ CheckInstaller

SpecCheck == InitCheck /\ [][NextCheck]_vars

(***************************************************************************)
(* The config record over sessions: a run saves a path, the user's folders *)
(* come and go, the tool is started again and loads the path               *)
(***************************************************************************)
\* a folder whose name holds the character "="
B2 == <<SEP, "b", "=", "c">>

B3 == <<SEP, "d">>

ConfigPaths == {B1, B2, B3}

\* line 257: save_installation_path(install_base_path)
SavePath ==
    /\ \E p \in ConfigPaths, io_error \in BOOLEAN :
          /\ Spend(N(io_error))
          /\ disk' = SaveInstallationPath(disk, p, io_error)
    /\ last' = "save"
    /\ UNCHANGED << appVars, checkVars, guiVars, afterq, check_pc, runs, started, remote >>

\* the 'Beam Server' folder under a path is created, or removed when empty
ChangeFolders ==
    /\ \E p \in ConfigPaths :
          \/ disk' = MakeDirs(disk, PathJoin(p, <<"Beam Server">>))
          \/ /\ IsDir(disk, PathJoin(p, <<"Beam Server">>))
             /\ disk' = [disk EXCEPT !.dirs = @ \ {Resolve(PathJoin(p, <<"Beam Server">>))}]
    /\ last' = "folders"
    /\ UNCHANGED << appVars, checkVars, guiVars, afterq, check_pc, runs, started, remote,
                    faults >>

\* lines 45-50: the tool is started again
Relaunch ==
    /\ install_path' = LoadInstallationPath(disk, DefaultInstallPath)
    /\ last' = "load"
    /\ UNCHANGED << disk, delete_zip_var, create_server_var, checkVars, guiVars, afterq,
                    check_pc, runs, started, remote, faults >>

InitConfig == InitApp(BareDisk) /\ remote = Remote(V1, CURRENT_INSTALLER_VERSION, 1)

NextConfig == SavePath \/ ChangeFolders \/ Relaunch

SpecConfig == InitConfig /\ [][NextConfig]_vars

(***************************************************************************)
(* The program started on a release record that cannot be used             *)
(***************************************************************************)
\* a record with another separator: no line starts with a key
ForeignLines == << <<"BSC_Current_Version", ":", " ", "v", "1">>, <<"#", "x">> >>

\* a record whose component line was cut after the key
CutLines == << <<"BSC_Current_Version", " ", "=">> >>

\* release.txt is there and cannot be opened for reading or for writing
Unreadable(d, base) == MakeDirs(d, ReleaseFilePath(base))

DegradedSessions ==
    { << Installed(BareDisk, DefaultInstallPath, ForeignLines),
         Remote(V1, NewerInstaller, 1) >>,
      << Installed(BareDisk, DefaultInstallPath, CutLines),
         Remote(V1, CURRENT_INSTALLER_VERSION, 1) >>,
      << Unreadable(BareDisk, DefaultInstallPath),
         Remote(V1, CURRENT_INSTALLER_VERSION, 1) >> }

InitDegraded == \E s \in DegradedSessions : InitApp(s[1]) /\ remote = s[2]

SpecDegraded == InitDegraded /\ [][NextSerial]_vars

(***************************************************************************)
(* Properties                                                              *)
(***************************************************************************)
\* the path q is root or lies below it
Inside(q, root) == Len(root) <= Len(q) /\ SubSeq(q, 1, Len(root)) = root

\* the directories d1 has and d0 has not, the files d1 has and d0 has not
\* or has with other bytes
Created(d0, d1) ==
    (d1.dirs \ d0.dirs)
        \cup {f \in DOMAIN d1.files : f \notin DOMAIN d0.files \/ d0.files[f] # d1.files[f]}

\* this step is worker w's extraction
Extracts(w) ==
    /\ runs[w].pc \in {"i_extract", "u_extract"}
    /\ Len(runs') = Len(runs)
    /\ runs'[w].pc # runs[w].pc

Ended(run) == run.pc \in {"msg_end", "done"}

ZipOf(run) == BsiZipFilename(run.install_base_path, run.bsi_version_to_install)

\* C1: the extraction of an install or update run creates no file and no
\* directory outside the 'Beam Server' folder it extracts into, whatever the
\* entries of the archive are named
C1_ExtractionStaysInside ==
    [][\A w \in Workers :
          Extracts(w) =>
             \A q \in Created(disk, disk') :
                Inside(q, Resolve(BeamServerPath(runs[w].install_base_path)))]_vars

\* C2: when the extraction of a run succeeded, extracting the same archive
\* again into the same folder succeeds and leaves the disk as it is
C2_ReExtractionSame ==
    \A w \in Workers :
        runs[w].pc \in {"i_dispose", "u_apply"} =>
            ExtractZip(disk, ZipOf(runs[w]), BeamServerPath(runs[w].install_base_path))
                = [status |-> "ok", disk |-> disk]

\* an update run extracted release 2 over the installed tree of release 1
C2_Witness ==
    \E w \in Workers :
        /\ runs[w].pc = "u_apply"
        /\ IsFile(runs[w].disk0, PathJoin(BeamServerPath(runs[w].install_base_path), <<"README">>))
        /\ disk.files[Resolve(PathJoin(BeamServerPath(runs[w].install_base_path),
                                       <<"README">>))] = <<"r", "2">>

\* the release numbers of a parseable tag, a missing number counting as 0
Component(r, i) == IF i <= Len(r) THEN r[i] ELSE 0

\* version a is older than version b: at the first number where they differ,
\* a has the smaller one
OlderRelease(ra, rb) ==
    \E i \in 1..(Len(ra) + Len(rb)) :
        /\ Component(ra, i) < Component(rb, i)
        /\ \A j \in 1..(i - 1) : Component(ra, j) = Component(rb, j)

Older(a, b) == OlderRelease(Release(a), Release(b))

Parses(tag) == Truthy(tag) /\ ~ParseRaises(tag)

\* C3: after the update check, for a recorded component tag and a latest tag
\* that both parse, bsi_update_available is TRUE exactly when the recorded
\* version is older than the latest one (FALSE when it is newer or the same)
C3_FlagFollowsOrder ==
    (check_pc = "done" /\ Parses(current_bsc_version) /\ Parses(latest_bsi_version))
        => (bsi_update_available <=> Older(current_bsc_version, latest_bsi_version))

\* the check compared v1.2 with the newer v1.10 and set the flag
C3_Witness ==
    /\ check_pc = "done"
    /\ current_bsc_version = <<"v", "1", ".", "2">>
    /\ latest_bsi_version = <<"v", "1", ".", "1", "0">>
    /\ bsi_update_available

\* C4: after the update check, when no component version was read from the
\* release file, bsi_update_available is FALSE whatever the latest tag is
C4_NoVersionNoFlag ==
    (check_pc = "done" /\ ~Truthy(current_bsc_version)) => ~bsi_update_available

\* the check ran without a recorded component version and with a latest tag
C4_Witness ==
    /\ check_pc = "done"
    /\ current_bsc_version = None
    /\ Parses(latest_bsi_version)

\* the path that save_installation_path wrote into the config file
StoredPath(d) ==
    SubSeq(d.files[Resolve(ConfigFilePath)][1], Len(ConfigKey) + 1,
           Len(d.files[Resolve(ConfigFilePath)][1]))

\* C5: after load_installation_path, the install path is the default unless
\* the path stored in the config file holds a 'Beam Server' directory, and
\* then it is the stored path
C5_StaleEntryIgnored ==
    (last = "load" /\ IsFile(disk, ConfigFilePath)) =>
        IF IsDir(disk, PathJoin(StoredPath(disk), <<"Beam Server">>))
        THEN install_path = StoredPath(disk)
        ELSE install_path = DefaultInstallPath

\* the run started where no 'Beam Server' folder was
Fresh(run) == ~Exists(run.disk0, BeamServerPath(run.install_base_path))

\* an install run that ended, in which the version was resolved, the archive
\* was extracted and nothing failed, started on a fresh root with the
\* server provisioning off
FreshPlainInstall(run) ==
    /\ run.kind = "install"
    /\ Ended(run)
    /\ Truthy(run.bsi_version_to_install)
    /\ run.extracted # EmptyDisk
    /\ ~run.create_server
    /\ faults = run.faults0
    /\ Fresh(run)

\* C6: a fresh install with the server provisioning off, whose steps all
\* succeeded, leaves the 'Beam Server' and 'BSI' folders, no 'Server 1'
\* folder, executable or launch script, a release file with the resolved
\* component version, and ends with the success status at 100
C6_FreshPlainInstall ==
    \A w \in Workers :
        FreshPlainInstall(runs[w]) =>
            /\ IsDir(disk, BeamServerPath(runs[w].install_base_path))
            /\ IsDir(disk, BsiFolderPath(runs[w].install_base_path))
            /\ ~Exists(disk, Server1FolderPath(runs[w].install_base_path))
            /\ ~Exists(disk, BeammpExeDest(runs[w].install_base_path))
            /\ ~Exists(disk, ShortcutPath(runs[w].install_base_path))
            /\ IsFile(disk, ReleaseFilePath(runs[w].install_base_path))
            /\ ReadReleaseFile(disk, runs[w].install_base_path)[1]
                  = runs[w].bsi_version_to_install
            /\ runs[w].log[Len(runs[w].log)] = Success("Installation complete!", 100)
            /\ \A i \in 1..Len(runs[w].log) : ~runs[w].log[i].error

\* such a run ended, after it had resolved the version itself
C6_Witness ==
    \E w \in Workers :
        /\ FreshPlainInstall(runs[w])
        /\ runs[w].pc = "done"
        /\ runs[w].log[1].progress_value = 15

ExeFailure == Failure("Error downloading BeamMP-Server.exe")

\* the files the steps between the extraction and the download of the
\* executable may touch: the archive, its place in 'BSI', the executable
AfterExtraction(run) ==
    { Resolve(ZipOf(run)),
      Resolve(PathJoin(BsiFolderPath(run.install_base_path), BaseName(ZipOf(run)))),
      Resolve(BeammpExeDest(run.install_base_path)) }

\* C7: an install run that reported the failed download of the executable
\* ended with that status (no later step ran), and every file its extraction
\* left is on disk with the same bytes; nothing else was written
C7_ExeFailureStops ==
    \A w \in Workers :
        (runs[w].kind = "install" /\ \E i \in 1..Len(runs[w].log) : runs[w].log[i] = ExeFailure)
        => /\ Ended(runs[w])
           /\ runs[w].log[Len(runs[w].log)] = ExeFailure
           /\ runs[w].log[Len(runs[w].log) - 1].progress_value = 65
           /\ \A f \in (DOMAIN disk.files \cup DOMAIN runs[w].extracted.files)
                          \ AfterExtraction(runs[w]) :
                 /\ f \in DOMAIN disk.files
                 /\ f \in DOMAIN runs[w].extracted.files
                 /\ disk.files[f] = runs[w].extracted.files[f]

\* the download of the executable failed after README was extracted
C7_Witness ==
    \E w \in Workers :
        /\ runs[w].pc = "done"
        /\ runs[w].log[Len(runs[w].log)] = ExeFailure
        /\ IsFile(disk, PathJoin(BeamServerPath(runs[w].install_base_path), <<"README">>))

\* C8: an update run that ended when only the component had a newer
\* release leaves the installer version of the release file as it was when
\* the run started, and no downloaded installer script
C8_InstallerVersionKept ==
    \A w \in Workers :
        (runs[w].kind = "update" /\ Ended(runs[w])
            /\ bsi_update_available /\ ~installer_update_available)
        => /\ ReadReleaseFile(disk, runs[w].install_base_path)[2]
                = ReadReleaseFile(runs[w].disk0, runs[w].install_base_path)[2]
           /\ ~IsFile(disk, TempNewInstallerPath)

\* C9: the percentages a run passed to update_status never decrease
C9_PercentagesMonotone ==
    \A w \in Workers :
        \A i \in 1..(Len(runs[w].log) - 1) :
            runs[w].log[i].progress_value <= runs[w].log[i + 1].progress_value

\* C10: at most one worker thread is executing _run_installation or
\* _run_perform_update
C10_OneWorker == Cardinality({w \in Workers : Running(w)}) <= 1

\* the worker thread of this record returned
Returned(run) == run.pc = "done"

\* the run downloaded the component archive, or tried to
Downloads(run) ==
    \E i \in 1..Len(run.log) :
        run.log[i].progress_value = (IF run.kind = "install" THEN 20 ELSE 10)

\* C11: when an install or update run has returned, whether it succeeded or
\* failed, no file is left at the place the archive was downloaded to,
\* '<root>/Beammp-server-creator-<version>.zip'
C11_ArchiveGone ==
    \A w \in Workers :
        (Returned(runs[w]) /\ Downloads(runs[w])) => ~IsFile(disk, ZipOf(runs[w]))

\* p is a file that holds at least one byte
NonEmptyFile(d, p) == IsFile(d, p) /\ d.files[Resolve(p)] # <<>>

\* the install run reported success
ReportedSuccess(run) ==
    /\ run.kind = "install"
    /\ Len(run.log) > 0
    /\ run.log[Len(run.log)] = Success("Installation complete!", 100)

\* the directory layout of an installation with a provisioned server
ServerLayout(d, base) ==
    /\ IsDir(d, BeamServerPath(base))
    /\ IsDir(d, BsiFolderPath(base))
    /\ IsDir(d, Server1FolderPath(base))
    /\ IsDir(d, PathJoin(Server1FolderPath(base), <<"Resource">>))
    /\ IsDir(d, PathJoin(PathJoin(Server1FolderPath(base), <<"Resource">>), <<"Client">>))
    /\ NonEmptyFile(d, BeammpExeDest(base))
    /\ NonEmptyFile(d, PathJoin(Server1FolderPath(base), ServerConfigName))
    /\ NonEmptyFile(d, ShortcutPath(base))

\* C12: when an install run that provisioned the server reports success,
\* every directory of the layout exists and the executable, its
\* configuration file in the server folder and the launch script are
\* files that are not empty
C12_LayoutComplete ==
    \A w \in Workers :
        (ReportedSuccess(runs[w]) /\ runs[w].create_server)
            => ServerLayout(disk, runs[w].install_base_path)

\* the status is one that ends a run: a failure or a success
Terminal(st) == st.error \/ st.success

\* C13: a worker thread that has ended, in whichever way, passed a terminal
\* status to update_status as its last status: no run ends without one
C13_EndsWithTerminalStatus ==
    \A w \in Workers :
        ~Alive(runs[w]) =>
            /\ Len(runs[w].log) > 0
            /\ Terminal(runs[w].log[Len(runs[w].log)])

\* the run passed this status to update_status
Logged(run, st) == \E i \in 1..Len(run.log) : run.log[i] = st

\* a step of the run reported its failure
StepFailed(run) == \E i \in 1..Len(run.log) : run.log[i].error

UpdateSucceeded == Success("All selected updates completed!", 100)

UpdateFailed == Failure("Update process finished with errors.")

\* the files an update run may touch after its extraction: the archive,
\* the release file and the downloaded installer script
AfterUpdateExtraction(run) ==
    { Resolve(ZipOf(run)),
      Resolve(ReleaseFilePath(run.install_base_path)),
      Resolve(TempNewInstallerPath) }

\* every file the extraction of the run left is on disk with the same bytes
ExtractionKept(run, touched) ==
    \A f \in DOMAIN run.extracted.files \ touched :
        f \in DOMAIN disk.files /\ disk.files[f] = run.extracted.files[f]

C15_InstallerUpdateAttempted ==
    \A w \in Workers :
        (runs[w].kind = "update" /\ Returned(runs[w]) /\ installer_update_available)
            => Logged(runs[w], Progress("Updating BSI Installer", 60))

\* C16: when an update run returned in which the component update
\* succeeded and nothing failed, the component version of the release file
\* is the version whose archive the run extracted, also when the run went
\* on to the tool's own update
C16_ComponentVersionPersisted ==
    \A w \in Workers :
        (runs[w].kind = "update" /\ Returned(runs[w])
            /\ Logged(runs[w], Progress("BSI updated successfully!", 50))
            /\ faults = runs[w].faults0)
        => ReadReleaseFile(disk, runs[w].install_base_path)[1]
              = runs[w].bsi_version_to_install

\* C17: no caller of get_latest_github_release_tag, the update-check
\* thread or an install worker, is ended by an exception the function
\* raised: for every answer to its request it returns a tag or None
C17_ResolverNeverRaises ==
    /\ check_pc # "dead"
    /\ \A w \in Workers : runs[w].pc # "dead"

\* the text of line after key holds something that is no blank
HasValue(line, key) ==
    /\ StartsWith(Strip(line), key)
    /\ \E i \in (Len(key) + 1)..Len(Strip(line)) : Strip(line)[i] \notin {" ", "="}

\* the release file under base is a file with a line of key that has a value
Recorded(d, base, key) ==
    /\ IsFile(d, ReleaseFilePath(base))
    /\ \E i \in DOMAIN d.files[Resolve(ReleaseFilePath(base))] :
          HasValue(d.files[Resolve(ReleaseFilePath(base))][i], key)

\* this step is the update check's call of read_release_file
ReadsRelease == check_pc = "read" /\ check_pc' # "read"

\* the run started where a release file was that records no component
StartedDegraded(run) ==
    /\ Exists(run.disk0, ReleaseFilePath(run.install_base_path))
    /\ ~Recorded(run.disk0, run.install_base_path, BscKey)

\* C18: read_release_file does not raise: its caller goes on, and a version
\* whose line is missing, cut or in a file that cannot be read comes back
\* absent; an install run started on such a record, in which nothing
\* fails, extracts the component and reports success as a fresh one does
C18_ReadNeverRaises ==
    /\ [][ReadsRelease =>
            /\ check_pc' = "bsi"
            /\ ~Recorded(disk, install_path, BscKey) => ~Truthy(current_bsc_version')
            /\ ~Recorded(disk, install_path, InstallerKey)
                  => ~Truthy(current_installer_installed_version')]_vars
    /\ [](\A w \in Workers :
            (runs[w].kind = "install" /\ Returned(runs[w]) /\ faults = runs[w].faults0
                /\ StartedDegraded(runs[w]))
            => /\ ReportedSuccess(runs[w])
               /\ IsFile(disk, PathJoin(BeamServerPath(runs[w].install_base_path),
                                        <<"README">>))
               /\ IsFile(disk, ReleaseFilePath(runs[w].install_base_path))
                     => ReadReleaseFile(disk, runs[w].install_base_path)[1]
                           = runs[w].bsi_version_to_install)

\* the update check read a release.txt that cannot be opened, and an install
\* run started on it returned
C18_Witness ==
    \E w \in Workers :
        /\ check_pc = "done"
        /\ current_bsc_version = None
        /\ Returned(runs[w])
        /\ ReportedSuccess(runs[w])
        /\ IsDir(runs[w].disk0, ReleaseFilePath(runs[w].install_base_path))

\* the config file holds the line save_installation_path writes for path
ConfigStored(d, path) ==
    IsFile(d, ConfigFilePath) /\ d.files[Resolve(ConfigFilePath)] = <<ConfigLine(path)>>

\* C19: an install run reports its success only when the release file
\* records the installed component version and the config file stores the
\* install path: a write that failed is not passed over in silence
C19_WriteFailureReported ==
    \A w \in Workers :
        (ReportedSuccess(runs[w]) /\ Ended(runs[w])) =>
            /\ ReadReleaseFile(disk, runs[w].install_base_path)[1]
                  = runs[w].bsi_version_to_install
            /\ ConfigStored(disk, runs[w].install_base_path)

\* no file at p holds only the first bytes of body
NotPartial(d, p, body) ==
    IsFile(d, p) => (d.files[Resolve(p)] = body \/ d.files[Resolve(p)] # Truncated(body))

\* C20: when a run returned after one of its downloads failed with a
\* transport error, no partially written file is at the destination of that
\* download: the archive, the executable or the new installer script
C20_NoPartialDownload ==
    \A w \in Workers :
        Returned(runs[w]) =>
            /\ (Logged(runs[w], Failure("Error downloading BSI zip"))
                  \/ Logged(runs[w], Failure("Error updating BSI")))
                  => NotPartial(disk, ZipOf(runs[w]), remote.archive)
            /\ Logged(runs[w], ExeFailure)
                  => NotPartial(disk, BeammpExeDest(runs[w].install_base_path), ExeBytes)
            /\ Logged(runs[w], Failure("Error updating BSI Installer"))
                  => NotPartial(disk, TempNewInstallerPath, ScriptBytes)

\* this step of worker w extracts the component update (lines 462-478) or
\* records it in the release file (line 483)
AppliesComponent(w) ==
    /\ runs[w].kind = "update"
    /\ Len(runs') = Len(runs)
    /\ \/ runs[w].pc = "u_extract" /\ runs'[w].pc = "u_apply"
       \/ runs[w].pc = "u_apply" /\ runs'[w].pc = "u_installer"

\* the component version persisted under the root when the run began
PersistedAtStart(run) == ReadReleaseFile(run.disk0, run.install_base_path)[1]

\* C21: an update run extracts the component update into a root, and
\* records it in the release file of that root, only if the component
\* version persisted under the root when the run began is older than the
\* latest version
C21_UpdateFromPersistedState ==
    [][\A w \in Workers :
          AppliesComponent(w) =>
              /\ Parses(PersistedAtStart(runs[w]))
              /\ Older(PersistedAtStart(runs[w]), latest_bsi_version)]_vars

\* the number of times the run launched the executable
Launches(run) == Cardinality({i \in 1..Len(run.process) : run.process[i] = "Popen"})

\* the run came to a step after the bootstrap step: writing the launch
\* script (status 85), verifying, relocating the config file
PastBootstrap(run) ==
    /\ run.kind = "install"
    /\ \/ run.pc \in {"i_shortcut", "i_verify"}
       \/ \E i \in 1..Len(run.log) :
              ~run.log[i].error /\ run.log[i].progress_value \in {85, 90, 95}

\* C22: an install run launches the executable at most once, and when it
\* comes to a step after the bootstrap step the process was launched, then
\* asked to terminate, then found exited, in this order
C22_LaunchTerminateWaitInOrder ==
    \A w \in Workers :
        /\ Launches(runs[w]) <= 1
        /\ PastBootstrap(runs[w]) => runs[w].process = << "Popen", "terminate", "exit" >>

\* a run with server provisioning wrote the launch script after its process
\* had exited
C22_Witness ==
    \E w \in Workers :
        /\ runs[w].create_server
        /\ runs[w].pc = "i_verify"
        /\ runs[w].process = << "Popen", "terminate", "exit" >>
        /\ Exists(disk, ShortcutPath(runs[w].install_base_path))

ExecutionFailure == Failure("Error running BeamMP-Server.exe")

\* C23: an install run whose bootstrap step could not launch the executable
\* fails with the execution error, and a run that launched it never fails
\* with that error: a failure of terminate() or wait() lets the run go on
C23_TerminationFailureTolerated ==
    \A w \in Workers :
        /\ (/\ Logged(runs[w], Progress("Running BeamMP-Server.exe to initialize...", 75))
            /\ runs[w].process = <<>>)
               => runs[w].log[Len(runs[w].log)] = ExecutionFailure
        /\ runs[w].process # <<>> => ~Logged(runs[w], ExecutionFailure)

\* the messages of the handlers for any error of the extraction other than
\* a corrupt archive (lines 169-172, 489-492)
ExtractionErrorMessages == {"Error during BSI zip extraction", "Error extracting BSI update"}

\* C24: in an install run and in an update run, an archive that cannot be
\* opened as a zip file is reported with a failure of its own, another error
\* of the extraction with the failure of the general handler
C24_CorruptArchiveDistinct ==
    [][\A w \in Workers :
          Extracts(w) =>
              \A r \in {ExtractZip(disk, ZipOf(runs[w]),
                                   BeamServerPath(runs[w].install_base_path))} :
                  \A st \in {runs'[w].log[Len(runs'[w].log)]} :
                      /\ r.status = "badzip" =>
                             st.error /\ st.message \notin ExtractionErrorMessages
                      /\ r.status = "error" =>
                             st.error /\ st.message \in ExtractionErrorMessages]_vars

(***************************************************************************)
(* The program started where nothing is installed yet, while a newer       *)
(* release of the tool itself is published                                 *)
(***************************************************************************)
ToolOutdatedSession == << BareDisk, Remote(V1, NewerInstaller, 1) >>

InitToolOutdated == InitApp(ToolOutdatedSession[1]) /\ remote = ToolOutdatedSession[2]

SpecToolOutdated == InitToolOutdated /\ [][Next]_vars

\* this step is a step of a worker thread
WorkerActs ==
    \E w \in Workers : Running(w) /\ Len(runs') = Len(runs) /\ runs'[w] # runs[w]

\* C25: no step of a worker thread changes the progress bar, the status
\* label or a button: what a worker has to show reaches the widgets through
\* the callbacks it schedules on the event loop
C25_WorkersLeaveWidgetsAlone ==
    [][WorkerActs => UNCHANGED << progress_bar, status_label, action_button, back_button >>]_vars

\* the top-level directory entries of an archive
RootFolders(entries) ==
    {entries[i].name : i \in {j \in 1..Len(entries) :
                                  /\ EndsWith(entries[j].name, SEP)
                                  /\ Find(entries[j].name, SEP) = Len(entries[j].name)}}

\* what the entries from the i-th on leave on disk d when every entry R/p
\* is placed at destination/p and nothing else is extracted
RECURSIVE PlacedFrom(_, _, _, _, _)
PlacedFrom(d, entries, i, R, destination) ==
    IF i > Len(entries) THEN d
    ELSE LET name == entries[i].name
             at   == PathJoin(destination, SubSeq(name, Len(R) + 1, Len(name)))
         IN  IF name = R \/ ~StartsWith(name, R)
             THEN PlacedFrom(d, entries, i + 1, R, destination)
             ELSE IF EndsWith(name, SEP)
             THEN PlacedFrom(MakeDirs(d, at), entries, i + 1, R, destination)
             ELSE PlacedFrom(WriteFile(MakeDirs(d, DirName(at)), at, entries[i].data),
                             entries, i + 1, R, destination)

\* C26: an extraction that went through, of an archive with the single root
\* folder R, leaves the disk as placing every entry R/p at destination/p
\* does: directories made, files written with the bytes of the entry, the
\* root entry and the entries outside R without effect
C26_EntriesPlacedUnderDestination ==
    [][\A w \in Workers :
          (Extracts(w) /\ IsFile(disk, ZipOf(runs[w]))
                       /\ IsZip(disk.files[Resolve(ZipOf(runs[w]))])) =>
              \A entries \in {NameList(disk.files[Resolve(ZipOf(runs[w]))])} :
                  \A beam \in {BeamServerPath(runs[w].install_base_path)} :
                      \A r \in {ExtractZip(disk, ZipOf(runs[w]), beam)} :
                          (r.status = "ok" /\ Cardinality(RootFolders(entries)) = 1) =>
                              \A R \in RootFolders(entries) :
                                  disk' = PlacedFrom(disk, entries, 1, R, beam)]_vars

Fetching == Progress("Fetching latest BSI version for installation...", 15)

CouldNotDetermine == Failure("Could not determine latest BSI version")

\* the install run settled which version it installs, or that there is none
VersionSettled(run) ==
    run.kind = "install" /\ run.pc \notin {"i_begin", "i_resolve", "dead"}

\* C27: an install run installs the version the update check resolved when
\* there is one, and resolves it itself otherwise; a run whose own
\* resolution gave no version reports the failure as its only step, and the
\* disk is as it was when the run began: no folder, no file, no record
C27_InstallsResolvedVersion ==
    \A w \in Workers :
        VersionSettled(runs[w]) =>
            \/ /\ Truthy(runs[w].bsi_version_to_install)
               /\ ~Logged(runs[w], Fetching) =>
                      runs[w].bsi_version_to_install = latest_bsi_version
            \/ /\ ~Truthy(runs[w].bsi_version_to_install)
               /\ runs[w].log = << Fetching, CouldNotDetermine >>
               /\ runs[w].pc = "msg_end" => disk = runs[w].disk0

\* a run resolved the version itself, got none, and reported the failure
C27_Witness ==
    \E w \in Workers :
        /\ runs[w].kind = "install"
        /\ runs[w].pc = "msg_end"
        /\ ~Truthy(runs[w].bsi_version_to_install)
        /\ Logged(runs[w], CouldNotDetermine)
        /\ disk = runs[w].disk0

\* the resolver gave no tag, or one that parse_version rejects
Unusable(tag) == ~Truthy(tag) \/ ParseRaises(tag)

\* the flag is set exactly when both tags parse and current is older
FlagOf(flag, current, latest) ==
    flag <=> (Parses(current) /\ Parses(latest) /\ Older(current, latest))

\* C28: a check thread whose resolver returned goes on from the component to
\* the tool, and ends by scheduling the refresh of the indicator; when a
\* component's latest tag is missing or does not parse, or its recorded tag
\* does not parse, the flag of that component is FALSE after the check and
\* the flag of the other component is the outcome of its own comparison
C28_CheckSurvivesUnusableTag ==
    [][/\ (check_pc = "bsi" /\ check_pc' \notin {"bsi", "dead"}) => check_pc' = "installer"
       /\ (check_pc = "installer" /\ check_pc' \notin {"installer", "dead"}) =>
             /\ check_pc' = "done"
             /\ afterq' = Append(afterq, [fn |-> "update_update_indicator"])
             /\ (Unusable(latest_bsi_version') \/ ~Parses(current_bsc_version')) =>
                    /\ ~bsi_update_available'
                    /\ FlagOf(installer_update_available', CURRENT_INSTALLER_VERSION,
                              latest_installer_version')
             /\ Unusable(latest_installer_version') =>
                    /\ ~installer_update_available'
                    /\ FlagOf(bsi_update_available', current_bsc_version',
                              latest_bsi_version')]_vars

\* the check found a recorded component tag and a latest tag that does not
\* parse, went on to the tool, found it outdated, and scheduled the refresh
C28_Witness ==
    /\ check_pc = "done"
    /\ Parses(current_bsc_version)
    /\ Truthy(latest_bsi_version) /\ ParseRaises(latest_bsi_version)
    /\ ~bsi_update_available
    /\ installer_update_available
    /\ Len(afterq) > 0

ReleaseFileName == << "release", ".", "txt" >>

\* the persisted records on disk d: every release file and the config file,
\* each with its content
Records(d) ==
    {<< f, d.files[f] >> : f \in {g \in DOMAIN d.files :
                                    \/ g = Resolve(ConfigFilePath)
                                    \/ Len(g) > 0 /\ g[Len(g)] = ReleaseFileName}}

\* C29: a step of an install run creates or rewrites the release file or the
\* config file only as the step that follows all the others and emits the
\* success status; an install run that reported a failure has left both
\* records as they were when it began
C29_RecordsWrittenOnlyOnSuccess ==
    [][\A w \in Workers :
          (runs[w].kind = "install" /\ Running(w) /\ Len(runs') = Len(runs)) =>
              /\ (runs'[w] # runs[w] /\ disk' # disk /\ Records(disk') # Records(disk)) =>
                     /\ runs[w].pc = "i_persist"
                     /\ ~StepFailed(runs[w])
                     /\ ReportedSuccess(runs'[w])
              /\ (runs[w].pc # "msg_end" /\ runs'[w].pc = "msg_end" /\ StepFailed(runs'[w])) =>
                     Records(disk') = Records(runs[w].disk0)]_vars

\* an install run with server provisioning extracted the archive, failed at
\* a later step, and both records are as they were when it began
C29_Witness ==
    \E w \in Workers :
        /\ runs[w].kind = "install"
        /\ runs[w].pc = "msg_end"
        /\ StepFailed(runs[w])
        /\ runs[w].extracted # EmptyDisk
        /\ runs[w].create_server
        /\ Records(disk) = Records(runs[w].disk0)

\* an extraction into the root left its files on disk d (every archive that
\* extracts holds a README in its root folder)
ExtractedInto(d, base) == IsFile(d, PathJoin(BeamServerPath(base), <<"README">>))

\* C30: a step creates the release file under the install root only when
\* the component archive was extracted into that root, by the run that
\* takes the step or by an earlier one
C30_ReleaseFileOnlyWhereInstalled ==
    [][(/\ ~IsFile(disk, ReleaseFilePath(install_path))
        /\ IsFile(disk', ReleaseFilePath(install_path))) =>
            \/ ExtractedInto(disk, install_path)
            \/ \E w \in Workers :
                  /\ runs[w].extracted # EmptyDisk
                  /\ runs[w].install_base_path = install_path]_vars

\* C31: in the statuses a run passed to update_status, a terminal status
\* (error or success) is the last one: at most one status carries success,
\* and no status follows a terminal one
C31_TerminalStatusIsLast ==
    \A w \in Workers :
        \A i \in 1..Len(runs[w].log) :
            Terminal(runs[w].log[i]) => i = Len(runs[w].log)

(***************************************************************************)
(* The release record over many pairs of versions: the tool writes a pair  *)
(* and reads the record back                                               *)
(***************************************************************************)
ReleaseVersions == {None, V1, V2, CURRENT_INSTALLER_VERSION, NewerInstaller}

\* write_release_file(bsc_version, installer_version), as line 512 calls it
\* with the versions the tool holds
WriteRelease ==
    /\ \E bsc_version \in ReleaseVersions, installer_version \in ReleaseVersions,
          io_error \in BOOLEAN :
          /\ Spend(N(io_error))
          /\ disk' = WriteReleaseFile(disk, install_path, bsc_version, installer_version,
                                      io_error)
          /\ latest_bsi_version' = bsc_version
          /\ latest_installer_version' = installer_version
          /\ last' = IF io_error THEN "write_failed" ELSE "write"
    /\ UNCHANGED << appVars, guiVars, afterq, check_pc, runs, started, remote,
                    bsi_update_available, installer_update_available,
                    current_bsc_version, current_installer_installed_version >>

\* line 367: the pair read_release_file returns
ReadRelease ==
    /\ current_bsc_version' = ReadReleaseFile(disk, install_path)[1]
    /\ current_installer_installed_version' = ReadReleaseFile(disk, install_path)[2]
    /\ last' = IF last = "write" THEN "read_back" ELSE "read"
    /\ UNCHANGED << disk, appVars, guiVars, afterq, check_pc, runs, started, remote, faults,
                    bsi_update_available, installer_update_available,
                    latest_bsi_version, latest_installer_version >>

NextRelease == WriteRelease \/ ReadRelease

SpecRelease == InitConfig /\ [][NextRelease]_vars

\* C32: a read of the release file that follows a write of a pair of
\* versions returns that pair; a version that was absent when written is
\* absent when read
C32_ReleaseRoundTrip ==
    last = "read_back" =>
        /\ current_bsc_version = latest_bsi_version
        /\ current_installer_installed_version = latest_installer_version

\* C33: when the path that save_installation_path stored holds a
\* 'Beam Server' folder, load_installation_path sets the install path to
\* exactly that path, whatever characters the path holds
C33_ConfigRoundTrip ==
    (/\ last = "load"
     /\ IsFile(disk, ConfigFilePath)
     /\ IsDir(disk, PathJoin(StoredPath(disk), <<"Beam Server">>)))
        => install_path = StoredPath(disk)

====
